---- MODULE Spec2Model ----
(***************************************************************************)
(* A model of src/main.c: Conway's game of life on a bounded rectangular   *)
(* grid.  The world struct is the record w; every C function is an         *)
(* operator of the same name that returns what the function leaves behind. *)
(* Spec is the program main(); SpecApi calls the functions of the world    *)
(* directly, in any number, as a test of them would.                       *)
(***************************************************************************)
EXTENDS Integers, Sequences, FiniteSets, TLC

(* Rule thresholds and the frame interval, main.c:9-12. *)
MIN_SURVIVAL == 1
MAX_SURVIVAL == 4
SPAWN == 3
INTERVAL == 100

(* Bounds of the model. *)
MaxDim == 5      \* width and height range over 0..MaxDim
SmallDim == 3    \* on grids up to SmallDim x SmallDim rand() yields every pattern
MidDim == 4      \* on grids up to MidDim x MidDim, patterns of at most MidLive cells
MidLive == 4
MaxLive == 3     \* on larger grids, patterns of at most MaxLive live cells
MaxIter == 26    \* world_mainloop is followed for at most MaxIter advances
MaxCalls == 3    \* SpecApi calls world_advance at most MaxCalls times

(* TLC's integers have 32 bits, so the 64-bit size_t and the 32-bit int of *)
(* the build are modelled with SIZE_BITS and INT_BITS bits: the int is the *)
(* narrower of the two and both are far wider than any dimension.          *)
SIZE_BITS == 30
INT_BITS == 16
SizeMod == 2 ^ SIZE_BITS
IntMod == 2 ^ INT_BITS

(* Conversion of an integer value to size_t (unsigned, modulo 2^w). *)
ToSizeT(n) == n % SizeMod

(* Conversion of an integer value to int (two's complement truncation). *)
ToInt(n) ==
  LET m == n % IntMod
  IN  IF m >= IntMod \div 2 THEN m - IntMod ELSE m

VARIABLES
  w,        \* the world struct: cells, width, height, iteration
  pc,       \* position of the program (Spec) or of the caller (SpecApi)
  prev,     \* the snapshot world_advance took on its last call
  ret,      \* the value the last world_advance call returned
  calls,    \* number of world_advance calls made so far
  start,    \* the cells as world_randomize left them
  frames,   \* what world_draw has printed, one entry per call
  probe     \* SpecFn: the last direct call of a function and what it gave

vars == <<w, pc, prev, ret, calls, start, frames, probe>>

Rows(wd) == 0 .. (wd.height - 1)
Cols(wd) == 0 .. (wd.width - 1)

(* world_init: every cell dead, x and y set to its column and row. *)
world_init(width, height) ==
  [ cells     |-> [y \in 0 .. (height - 1) |->
                     [x \in 0 .. (width - 1) |->
                        [alive |-> 0, x |-> x, y |-> y]]],
    width     |-> ToSizeT(width),
    height    |-> ToSizeT(height),
    iteration |-> 0 ]

(* world_copy: a fresh world of the same dimensions with the alive flags  *)
(* copied; the copy's iteration is the 0 world_init gave it.              *)
world_copy(wd) ==
  LET copy == world_init(ToInt(wd.width), ToInt(wd.height))
  IN  [copy EXCEPT !.cells =
         [y \in Rows(wd) |-> [x \in Cols(wd) |->
            [copy.cells[y][x] EXCEPT !.alive = wd.cells[y][x].alive]]]]

(* Mutant: the return values of world_compare exchanged. *)
world_compare_inverted(w1, w2) ==
  IF w1.width # w2.width \/ w1.height # w2.height THEN 0
  ELSE IF \E y \in Rows(w1) : \E x \in Cols(w1) :
            w1.cells[y][x].alive # w2.cells[y][x].alive
       THEN 0
       ELSE 1

(* Mutant: the iteration counters compared as well. *)
world_compare_with_iteration(w1, w2) ==
  IF w1.width # w2.width \/ w1.height # w2.height
     \/ w1.iteration # w2.iteration THEN 1
  ELSE IF \E y \in Rows(w1) : \E x \in Cols(w1) :
            w1.cells[y][x].alive # w2.cells[y][x].alive
       THEN 1
       ELSE 0

(* world_compare: 0 if dimensions and alive flags agree, 1 otherwise. *)
world_compare(w1, w2) ==
  IF w1.width # w2.width \/ w1.height # w2.height THEN 1
  ELSE IF \E y \in Rows(w1) : \E x \in Cols(w1) :
            w1.cells[y][x].alive # w2.cells[y][x].alive
       THEN 1
       ELSE 0

(* world_is_empty: 1 if no cell is alive, 0 otherwise. *)
world_is_empty(wd) ==
  IF \E y \in Rows(wd) : \E x \in Cols(wd) : wd.cells[y][x].alive # 0
  THEN 0 ELSE 1

(* world_is_in_bounds: x and y arrive as size_t. *)
in_bounds_size_t(wd, x, y) ==
  IF (0 <= x /\ x < wd.width) /\ (0 <= y /\ y < wd.height) THEN 1 ELSE 0

(* Mutant: int parameters, and only the upper ends tested. *)
world_is_in_bounds_signed(wd, x, y) ==
  IF x < wd.width /\ y < wd.height THEN 1 ELSE 0

world_is_in_bounds(wd, x, y) == in_bounds_size_t(wd, ToSizeT(x), ToSizeT(y))

(* The neighbour coordinates of cell_update, main.c:256-257: the size_t   *)
(* sum of the cell's coordinate and the offset, stored in an int.         *)
neighbour_coord(coord, offset) == ToInt(ToSizeT(coord + offset))

(* Mutant: the cell itself is read like a neighbour. *)
neighbour_counted_with_self(wd, neighbour_x, neighbour_y, is_neighbour_current_cell) ==
  world_is_in_bounds(wd, neighbour_x, neighbour_y) # 0

(* The condition of main.c:261 under which a neighbour is read. *)
neighbour_counted(wd, neighbour_x, neighbour_y, is_neighbour_current_cell) ==
  ~is_neighbour_current_cell
  /\ world_is_in_bounds(wd, neighbour_x, neighbour_y) # 0

(* The body of the inner loop of cell_update, main.c:260-262, for the     *)
(* neighbour coordinates computed at main.c:256-257.                      *)
neighbour_at(wd, neighbour_x, neighbour_y, is_neighbour_current_cell) ==
  IF neighbour_counted(wd, neighbour_x, neighbour_y, is_neighbour_current_cell)
  THEN wd.cells[neighbour_y][neighbour_x].alive
  ELSE 0

(* One pass of the inner loop of cell_update, main.c:256-262: what the    *)
(* neighbour at the given offsets adds to the count.                      *)
neighbour(wd, c, x_offset, y_offset) ==
  neighbour_at(wd, neighbour_coord(c.x, x_offset),
                   neighbour_coord(c.y, y_offset),
                   x_offset = 0 /\ y_offset = 0)

(* The index pairs <<neighbour_y, neighbour_x>> at which cell_update      *)
(* reads wd.cells for the cell c, main.c:262, over both loops.            *)
cell_reads(wd, c) ==
  {<<neighbour_coord(c.y, o[2]), neighbour_coord(c.x, o[1])>> :
     o \in {q \in {-1, 0, 1} \X {-1, 0, 1} :
              neighbour_counted(wd, neighbour_coord(c.x, q[1]),
                                    neighbour_coord(c.y, q[2]),
                                    q[1] = 0 /\ q[2] = 0)}}

(* The two loops of cell_update, main.c:252-264, over the offsets -1..1:  *)
(* the neighbour count of the cell c, read from wd as it is at the call.  *)
alive_neighbours(wd, c) ==
    neighbour(wd, c, -1, -1) + neighbour(wd, c, 0, -1) + neighbour(wd, c, 1, -1)
  + neighbour(wd, c, -1, 0)  + neighbour(wd, c, 0, 0)  + neighbour(wd, c, 1, 0)
  + neighbour(wd, c, -1, 1)  + neighbour(wd, c, 0, 1)  + neighbour(wd, c, 1, 1)

(* Mutant: survival on exactly 2 neighbours only. *)
next_alive_crowded_at_3(alive, n) ==
  IF alive # 0
  THEN (IF MIN_SURVIVAL < n /\ n < MAX_SURVIVAL - 1 THEN 1 ELSE 0)
  ELSE (IF n = SPAWN THEN 1 ELSE 0)

(* Mutant: no lower threshold for survival. *)
next_alive_no_underpopulation(alive, n) ==
  IF alive # 0
  THEN (IF n < MAX_SURVIVAL THEN 1 ELSE 0)
  ELSE (IF n = SPAWN THEN 1 ELSE 0)

(* Mutant: a dead cell judged by the survival thresholds. *)
next_alive_birth_as_survival(alive, n) ==
  IF MIN_SURVIVAL < n /\ n < MAX_SURVIVAL THEN 1 ELSE 0

(* The rule of cell_update, main.c:267-269: the next alive flag of a cell  *)
(* with the given flag and n live neighbours.                             *)
next_alive(alive, n) ==
  IF alive # 0
  THEN (IF MIN_SURVIVAL < n /\ n < MAX_SURVIVAL THEN 1 ELSE 0)
  ELSE (IF n = SPAWN THEN 1 ELSE 0)

(* cell_update on the cell c = &wd.cells[cy][cx]: the world with that one *)
(* alive flag rewritten.                                                  *)
cell_update(wd, cy, cx) ==
  [wd EXCEPT !.cells[cy][cx].alive =
     next_alive(wd.cells[cy][cx].alive,
                alive_neighbours(wd, wd.cells[cy][cx]))]

(* The update loop of world_advance, main.c:176-178: cell_update on the   *)
(* live world, cell after cell in row-major order, from cell number k.    *)
RECURSIVE update_cells(_, _)
update_cells(wd, k) ==
  IF k >= wd.width * wd.height THEN wd
  ELSE update_cells(cell_update(wd, k \div wd.width, k % wd.width), k + 1)

(* Mutant: the return value without the world_is_empty test. *)
advance_return_ignoring_empty(after, snapshot, is_same_as_prev) ==
  [ w    |-> after,
    prev |-> snapshot,
    ret  |-> IF is_same_as_prev # 0 THEN 0 ELSE 1 ]

(* The end of world_advance, main.c:187-190: the counter and the return   *)
(* value, given the updated world, the snapshot and is_same_as_prev.      *)
advance_return(after, snapshot, is_same_as_prev) ==
  [ w    |-> after,
    prev |-> snapshot,
    ret  |-> IF is_same_as_prev # 0 \/ world_is_empty(after) # 0
             THEN 0 ELSE 1 ]

(* Mutant: the counter incremented on every call. *)
advance_count_always(updated, snapshot, is_same_as_prev) ==
  [ w    |-> [updated EXCEPT !.iteration = @ + 1],
    prev |-> snapshot,
    ret  |-> IF is_same_as_prev # 0 \/ world_is_empty(updated) # 0
             THEN 0 ELSE 1 ]

(* Mutant: the counter incremented by is_same_as_prev. *)
advance_count_on_same(updated, snapshot, is_same_as_prev) ==
  advance_return(
    [updated EXCEPT !.iteration = @ + (IF is_same_as_prev # 0 THEN 1 ELSE 0)],
    snapshot, is_same_as_prev)

(* world_advance, main.c:187: the counter. *)
advance_count(updated, snapshot, is_same_as_prev) ==
  advance_return(
    [updated EXCEPT !.iteration = @ + (IF is_same_as_prev # 0 THEN 0 ELSE 1)],
    snapshot, is_same_as_prev)

(* Mutant: the comparison never finds the worlds identical. *)
advance_compare_never_same(updated, snapshot) ==
  advance_count(updated, snapshot, 0)

(* world_advance, main.c:180-183: the comparison with the snapshot. *)
advance_compare(updated, snapshot) ==
  advance_count(updated, snapshot,
                IF world_compare(updated, snapshot) # 0 THEN 0 ELSE 1)

(* world_advance: the world it leaves, its snapshot and its return value. *)
world_advance(wd) == advance_compare(update_cells(wd, 0), world_copy(wd))

(* Mutant: the two characters of world_draw exchanged. *)
world_draw_exchanged(wd) ==
  [ rows      |-> [y \in Rows(wd) |-> [x \in Cols(wd) |->
                     IF wd.cells[y][x].alive # 0 THEN " " ELSE "o"]],
    width     |-> wd.width,
    height    |-> wd.height,
    iteration |-> wd.iteration ]

(* world_draw: the rows of 'o' and ' ' and the numbers of the status line. *)
world_draw(wd) ==
  [ rows      |-> [y \in Rows(wd) |-> [x \in Cols(wd) |->
                     IF wd.cells[y][x].alive # 0 THEN "o" ELSE " "]],
    width     |-> wd.width,
    height    |-> wd.height,
    iteration |-> wd.iteration ]

(* The sets of at most n elements of S. *)
RECURSIVE UpTo(_, _)
UpTo(S, n) ==
  IF n = 0 THEN {{}}
  ELSE LET smaller == UpTo(S, n - 1)
       IN  smaller \cup {T \cup {p} : T \in smaller, p \in S}

(* The sets of live positions rand() % 2 may produce, within the bounds. *)
RandomLive(wd) ==
  LET pos == Rows(wd) \X Cols(wd)
  IN  IF wd.width <= SmallDim /\ wd.height <= SmallDim
      THEN SUBSET pos
      ELSE IF wd.width <= MidDim /\ wd.height <= MidDim
           THEN UpTo(pos, MidLive)
           ELSE UpTo(pos, MaxLive)

(* Mutant: the whole cell struct overwritten, x and y left 0. *)
world_randomize_zeroing(wd, live) ==
  [wd EXCEPT !.cells =
     [y \in Rows(wd) |-> [x \in Cols(wd) |->
        [alive |-> IF <<y, x>> \in live THEN 1 ELSE 0, x |-> 0, y |-> 0]]]]

(* world_randomize with the live positions rand() % 2 produced. *)
world_randomize(wd, live) ==
  [wd EXCEPT !.cells =
     [y \in Rows(wd) |-> [x \in Cols(wd) |->
        [wd.cells[y][x] EXCEPT !.alive = IF <<y, x>> \in live THEN 1 ELSE 0]]]]

(***************************************************************************)
(* The same functions with their storage: heap is the sequence of rows    *)
(* calloc has returned, a row's address is its index, and a world object  *)
(* holds in cells the address of each of its rows.                        *)
(***************************************************************************)

(* world_init: one fresh row per y, main.c:59, every cell dead. *)
heap_world_init(heap, width, height) ==
  [ heap |-> heap \o [i \in 1 .. height |->
                        [x \in 0 .. (width - 1) |->
                           [alive |-> 0, x |-> x, y |-> i - 1]]],
    obj  |-> [ cells     |-> [y \in 0 .. (height - 1) |-> Len(heap) + y + 1],
               width     |-> ToSizeT(width),
               height    |-> ToSizeT(height),
               iteration |-> 0 ] ]

(* The world a world object denotes: its rows read through the heap. *)
heap_load(heap, obj) ==
  [ cells     |-> [y \in DOMAIN obj.cells |-> heap[obj.cells[y]]],
    width     |-> obj.width,
    height    |-> obj.height,
    iteration |-> obj.iteration ]

(* The world wd as it lies in a heap that holds nothing else. *)
heap_store(wd) ==
  [ heap |-> [i \in 1 .. wd.height |-> wd.cells[i - 1]],
    obj  |-> [ cells     |-> [y \in Rows(wd) |-> y + 1],
               width     |-> wd.width,
               height    |-> wd.height,
               iteration |-> wd.iteration ] ]

(* The copy loop of world_copy, main.c:90-92, into the rows of copy. *)
heap_copy_alive(heap, obj, copy) ==
  [a \in DOMAIN heap |->
     IF \E y \in DOMAIN copy.cells : copy.cells[y] = a
     THEN LET y == CHOOSE y \in DOMAIN copy.cells : copy.cells[y] = a
          IN  [x \in DOMAIN heap[a] |->
                 [heap[a][x] EXCEPT !.alive = heap[obj.cells[y]][x].alive]]
     ELSE heap[a]]

(* Mutant: a copy of the struct that borrows the rows of the original. *)
heap_world_copy_shallow(heap, obj) ==
  [ heap |-> heap, obj |-> [obj EXCEPT !.iteration = 0] ]

(* world_copy: world_init, then the copy loop. *)
heap_world_copy(heap, obj) ==
  [ heap |-> heap_copy_alive(
               heap_world_init(heap, ToInt(obj.width), ToInt(obj.height)).heap,
               obj,
               heap_world_init(heap, ToInt(obj.width), ToInt(obj.height)).obj),
    obj  |-> heap_world_init(heap, ToInt(obj.width), ToInt(obj.height)).obj ]

(* A write to the alive flag of the cell at row y, column x of obj. *)
heap_set_alive(heap, obj, y, x, alive) ==
  [heap EXCEPT ![obj.cells[y]][x].alive = alive]

NoWorld == [cells |-> <<>>, width |-> 0, height |-> 0, iteration |-> 0]

(* No function has been called directly. *)
NoProbe == [op |-> "none"]

(* main() after world_init(width, height). *)
Init ==
  /\ \E width \in 0 .. MaxDim, height \in 0 .. MaxDim :
       w = world_init(width, height)
  /\ pc = "randomize"
  /\ prev = NoWorld
  /\ ret = 1
  /\ calls = 0
  /\ start = w.cells
  /\ frames = <<>>
  /\ probe = NoProbe

(* main.c:299 *)
Randomize ==
  /\ pc = "randomize"
  /\ \E live \in RandomLive(w) : w' = world_randomize(w, live)
  /\ start' = w'.cells
  /\ pc' = "draw"
  /\ UNCHANGED <<prev, ret, calls, frames, probe>>

(* Mutant: a draw that counts the frames in the world's counter. *)
DrawCounting ==
  /\ pc = "draw"
  /\ frames' = Append(frames, world_draw(w))
  /\ w' = [w EXCEPT !.iteration = @ + 1]
  /\ pc' = "sleep"
  /\ UNCHANGED <<prev, ret, calls, start, probe>>

(* world_mainloop, main.c:147 *)
Draw ==
  /\ pc = "draw"
  /\ frames' = Append(frames, world_draw(w))
  /\ pc' = "sleep"
  /\ UNCHANGED <<w, prev, ret, calls, start, probe>>

(* world_mainloop, main.c:148 *)
Sleep ==
  /\ pc = "sleep"
  /\ pc' = "advance"
  /\ UNCHANGED <<w, prev, ret, calls, start, frames, probe>>

(* Mutant: a loop that ignores what world_advance returned. *)
AdvanceIgnoringReturn ==
  /\ pc = "advance"
  /\ calls < MaxIter
  /\ \E r \in {world_advance(w)} :
         /\ w' = r.w
         /\ prev' = r.prev
         /\ ret' = r.ret
  /\ pc' = "draw"
  /\ calls' = calls + 1
  /\ UNCHANGED <<start, frames, probe>>

(* Mutant: a loop body that runs once. *)
AdvanceOnce ==
  /\ pc = "advance"
  /\ calls < MaxIter
  /\ \E r \in {world_advance(w)} :
         /\ w' = r.w
         /\ prev' = r.prev
         /\ ret' = r.ret
  /\ pc' = "free"
  /\ calls' = calls + 1
  /\ UNCHANGED <<start, frames, probe>>

(* world_mainloop, main.c:149: the loop condition. *)
Advance ==
  /\ pc = "advance"
  /\ calls < MaxIter
  /\ \E r \in {world_advance(w)} :
         /\ w' = r.w
         /\ prev' = r.prev
         /\ ret' = r.ret
         /\ pc' = IF r.ret # 0 THEN "draw" ELSE "free"
  /\ calls' = calls + 1
  /\ UNCHANGED <<start, frames, probe>>

(* main.c:301-303 *)
Free ==
  /\ pc = "free"
  /\ pc' = "exit"
  /\ UNCHANGED <<w, prev, ret, calls, start, frames, probe>>

Next == Randomize \/ Draw \/ Sleep \/ Advance \/ Free

Spec == Init /\ [][Next]_vars

(* A caller of the world's functions: world_init, world_randomize, then   *)
(* world_advance any number of times, whatever it returned.               *)
InitApi ==
  /\ \E width \in 0 .. MaxDim, height \in 0 .. MaxDim :
       w = world_init(width, height)
  /\ pc = "api_randomize"
  /\ prev = NoWorld
  /\ ret = 1
  /\ calls = 0
  /\ start = w.cells
  /\ frames = <<>>
  /\ probe = NoProbe

ApiRandomize ==
  /\ pc = "api_randomize"
  /\ \E live \in RandomLive(w) : w' = world_randomize(w, live)
  /\ start' = w'.cells
  /\ pc' = "api"
  /\ UNCHANGED <<prev, ret, calls, frames, probe>>

ApiAdvance ==
  /\ pc = "api"
  /\ calls < MaxCalls
  /\ \E r \in {world_advance(w)} :
         /\ w' = r.w
         /\ prev' = r.prev
         /\ ret' = r.ret
  /\ calls' = calls + 1
  /\ UNCHANGED <<pc, start, frames, probe>>

NextApi == ApiRandomize \/ ApiAdvance

SpecApi == InitApi /\ [][NextApi]_vars

(***************************************************************************)
(* SpecFn: a caller that builds a world of at most SmallDim x SmallDim,   *)
(* randomizes it, advances it up to MaxCalls times and then calls one of  *)
(* the functions directly; probe keeps the call and what it gave.         *)
(***************************************************************************)
InitFn ==
  /\ \E width \in 0 .. SmallDim, height \in 0 .. SmallDim :
       w = world_init(width, height)
  /\ pc = "fn_randomize"
  /\ prev = NoWorld
  /\ ret = 1
  /\ calls = 0
  /\ start = w.cells
  /\ frames = <<>>
  /\ probe = NoProbe

FnRandomize ==
  /\ pc = "fn_randomize"
  /\ \E live \in RandomLive(w) : w' = world_randomize(w, live)
  /\ start' = w'.cells
  /\ pc' = "fn"
  /\ UNCHANGED <<prev, ret, calls, frames, probe>>

FnAdvance ==
  /\ pc = "fn"
  /\ calls < MaxCalls
  /\ \E r \in {world_advance(w)} :
         /\ w' = r.w
         /\ prev' = r.prev
         /\ ret' = r.ret
  /\ calls' = calls + 1
  /\ UNCHANGED <<pc, start, frames, probe>>

(* The int values a caller passes for a coordinate: the ends of the int   *)
(* range, and the values on both sides of each border of the dimension.   *)
ProbeCoords(dim) == {-(IntMod \div 2), -1, 0, dim - 1, dim, IntMod \div 2 - 1}

(* world_is_in_bounds(w, x, y) with int arguments, as cell_update calls it. *)
FnInBounds ==
  /\ pc = "fn"
  /\ \E x \in ProbeCoords(w.width), y \in ProbeCoords(w.height) :
       probe' = [op |-> "in_bounds", x |-> x, y |-> y,
                 result |-> world_is_in_bounds(w, x, y)]
  /\ pc' = "fn_done"
  /\ UNCHANGED <<w, prev, ret, calls, start, frames>>

(* cell_update(w, &w->cells[y][x]) on one cell. *)
FnCellUpdate ==
  /\ pc = "fn"
  /\ \E y \in Rows(w), x \in Cols(w) :
       /\ probe' = [op |-> "cell_update", y |-> y, x |-> x, before |-> w,
                    reads |-> cell_reads(w, w.cells[y][x])]
       /\ w' = cell_update(w, y, x)
  /\ pc' = "fn_done"
  /\ UNCHANGED <<prev, ret, calls, start, frames>>

(* The worlds w is compared with: its copy, the copy with one alive flag  *)
(* changed, and fresh worlds of every dimension.                          *)
CompareWith(wd) ==
  {world_copy(wd)}
  \cup {[world_copy(wd) EXCEPT !.cells[y][x].alive = 1 - @] :
          y \in Rows(wd), x \in Cols(wd)}
  \cup {world_init(width, height) :
          width \in 0 .. SmallDim, height \in 0 .. SmallDim}

(* world_compare(w, other). *)
FnCompare ==
  /\ pc = "fn"
  /\ \E other \in CompareWith(w) :
       probe' = [op |-> "compare", other |-> other,
                 result |-> world_compare(w, other)]
  /\ pc' = "fn_done"
  /\ UNCHANGED <<w, prev, ret, calls, start, frames>>

(* copy = world_copy(w), with w laid out in the heap. *)
FnCopy ==
  /\ pc = "fn"
  /\ \E r \in {heap_world_copy(heap_store(w).heap, heap_store(w).obj)} :
       probe' = [op |-> "copy", heap |-> r.heap,
                 g |-> heap_store(w).obj, copy |-> r.obj]
  /\ pc' = "fn_copied"
  /\ UNCHANGED <<w, prev, ret, calls, start, frames>>

(* copy->cells[y][x].alive = !copy->cells[y][x].alive, by the caller. *)
FnMutateCopy ==
  /\ pc = "fn_copied"
  /\ \E y \in DOMAIN probe.copy.cells :
       \E x \in DOMAIN probe.heap[probe.copy.cells[y]] :
         probe' = [probe EXCEPT
                     !.op = "mutate_copy",
                     !.heap = heap_set_alive(probe.heap, probe.copy, y, x,
                                1 - probe.heap[probe.copy.cells[y]][x].alive)]
  /\ pc' = "fn_done"
  /\ UNCHANGED <<w, prev, ret, calls, start, frames>>

NextFn ==
  \/ FnRandomize \/ FnInBounds \/ FnCellUpdate \/ FnCompare
  \/ FnCopy \/ FnMutateCopy \/ FnAdvance

SpecFn == InitFn /\ [][NextFn]_vars

(***************************************************************************)
(* Vocabulary of the properties: the alive pattern as a set of positions   *)
(* <<row, column>>, and Conway's rule on a pattern.                        *)
(***************************************************************************)
Positions(cs) == UNION {{<<y, x>> : x \in DOMAIN cs[y]} : y \in DOMAIN cs}

LiveCells(cs) == {p \in Positions(cs) : cs[p[1]][p[2]].alive # 0}

Around(p) ==
  {<<p[1] + dy, p[2] + dx>> : dy \in {-1, 0, 1}, dx \in {-1, 0, 1}} \ {p}

(* Live cells of the pattern among the eight positions around p. *)
LiveAround(live, p) == Cardinality(Around(p) \cap live)

(* The next generation of a pattern on the given positions: survival on   *)
(* 2 or 3 live neighbours, birth on exactly 3, every cell judged on the   *)
(* same pattern.                                                          *)
Generation(live, pos) ==
  {p \in pos : IF p \in live THEN LiveAround(live, p) \in {2, 3}
                             ELSE LiveAround(live, p) = 3}

(* A frame shows the world: 'o' exactly on the live cells, and the        *)
(* world's numbers on the status line.                                    *)
Shows(frame, wd) ==
  /\ frame.width = wd.width
  /\ frame.height = wd.height
  /\ frame.iteration = wd.iteration
  /\ DOMAIN frame.rows = DOMAIN wd.cells
  /\ \A y \in DOMAIN wd.cells :
       /\ DOMAIN frame.rows[y] = DOMAIN wd.cells[y]
       /\ \A x \in DOMAIN wd.cells[y] :
            frame.rows[y][x] = (IF wd.cells[y][x].alive # 0 THEN "o" ELSE " ")

(* The positions a frame shows as alive. *)
Drawn(frame) ==
  {p \in UNION {{<<y, x>> : x \in DOMAIN frame.rows[y]} : y \in DOMAIN frame.rows} :
     frame.rows[p[1]][p[2]] = "o"}

Advanced == calls > 0
LoopReturned == pc \in {"free", "exit"}

(* C1: after a world_advance call every cell's alive flag is Conway's     *)
(* rule evaluated on the snapshot taken before the call; no cell's next   *)
(* state depends on a flag written earlier in the same pass.              *)
C1_SynchronousUpdate ==
  Advanced => LiveCells(w.cells) = Generation(LiveCells(prev.cells), Positions(w.cells))

(* The horizontal and the vertical three-cell line centred on c. *)
HorizontalLine(c) == {<<c[1], c[2] - 1>>, c, <<c[1], c[2] + 1>>}
VerticalLine(c) == {<<c[1] - 1, c[2]>>, c, <<c[1] + 1, c[2]>>}

(* The centres of a horizontal blinker that world_randomize left in the   *)
(* middle of a grid of at least 5 x 5: two cells away from every border.  *)
BlinkerCentres ==
  {c \in Positions(start) :
     /\ w.width >= 5 /\ w.height >= 5
     /\ c[1] >= 2 /\ c[1] + 2 < w.height
     /\ c[2] >= 2 /\ c[2] + 2 < w.width
     /\ LiveCells(start) = HorizontalLine(c)}

(* C2: a horizontal blinker in the middle of an otherwise dead grid is    *)
(* vertical after the first advance and horizontal again after the second, *)
(* the counter is 1 and then 2, and both advances signal continue.        *)
C2_BlinkerOscillates ==
  \A c \in BlinkerCentres :
    /\ calls = 1 => /\ LiveCells(w.cells) = VerticalLine(c)
                    /\ w.iteration = 1 /\ ret = 1
    /\ calls = 2 => /\ LiveCells(w.cells) = HorizontalLine(c)
                    /\ w.iteration = 2 /\ ret = 1

(* C3: the counter starts at 0, never decreases, changes only in a        *)
(* world_advance call and then by +1, and a call changes it exactly when  *)
(* the alive pattern after the call differs from the pattern before it.   *)
C3_CounterSteps ==
  /\ w.iteration = 0
  /\ [][ /\ w'.iteration >= w.iteration
         /\ w'.iteration # w.iteration =>
              /\ calls' = calls + 1
              /\ w'.iteration = w.iteration + 1
              /\ LiveCells(w'.cells) # LiveCells(w.cells)
         /\ (calls' = calls + 1 /\ w'.iteration = w.iteration) =>
              LiveCells(w'.cells) = LiveCells(w.cells) ]_vars

(* A counted call followed by a stagnating one. *)
C3_Witness == calls = 2 /\ w.iteration = 1 /\ LiveCells(w.cells) = LiveCells(prev.cells)

(* C4: world_advance returns 1 exactly when the updated grid differs from *)
(* the snapshot and has a live cell; an empty grid stops even when it     *)
(* differs from the snapshot.                                             *)
C4_ReturnValue ==
  Advanced =>
    /\ ret \in {0, 1}
    /\ ret = 1 <=> /\ LiveCells(w.cells) # LiveCells(prev.cells)
                   /\ LiveCells(w.cells) # {}

(* An extinction that changed the grid: stop although the grid differs. *)
C4_Witness ==
  /\ Advanced
  /\ LiveCells(w.cells) = {}
  /\ LiveCells(prev.cells) # {}
  /\ ret = 0

(* world_randomize left a 2 x 2 block and nothing else. *)
BlockAtStart ==
  \E p \in Positions(start) :
    LiveCells(start) =
      {p, <<p[1], p[2] + 1>>, <<p[1] + 1, p[2]>>, <<p[1] + 1, p[2] + 1>>}

(* C5: world_advance leaves a 2 x 2 block as it is; a second call returns *)
(* 0 and the counter, still 0 after the first call, is not incremented.   *)
C5_BlockIsStill ==
  BlockAtStart =>
    /\ Advanced => w.cells = start
    /\ calls >= 2 => ret = 0 /\ w.iteration = 0

C5_Witness == BlockAtStart /\ calls = 2 /\ w.width > 3 /\ w.height > 3

(* C6: on an all-dead grid of any size the first world_advance returns 0, *)
(* leaves every cell dead and leaves the counter unchanged.               *)
C6_DeadGridStops ==
  (LiveCells(start) = {} /\ calls = 1) =>
    /\ ret = 0
    /\ LiveCells(w.cells) = {}
    /\ w.iteration = 0

C6_Witness == LiveCells(start) = {} /\ calls = 1 /\ w.width >= 4 /\ w.height > 0

(* C7: a grid with exactly one live cell, wherever it is, is empty after  *)
(* one world_advance.                                                     *)
C7_LoneCellDies ==
  (Cardinality(LiveCells(start)) = 1 /\ calls = 1) => LiveCells(w.cells) = {}

(* A lone cell in the last corner of a grid, after the advance. *)
C7_Witness ==
  /\ calls = 1
  /\ w.width > 1 /\ w.height > 1
  /\ LiveCells(start) = {<<w.height - 1, w.width - 1>>}

(* C8: world_mainloop alternates render, pause, advance: the first frame  *)
(* is the randomized grid, every advance acts on the grid of the frame    *)
(* just drawn, and one more frame is drawn exactly when the advance       *)
(* returned continue.                                                     *)
C8_RenderPauseAdvance ==
  /\ pc = "randomize" => frames = <<>> /\ calls = 0
  /\ pc = "draw" => Len(frames) = calls /\ (Advanced => ret = 1)
  /\ pc \in {"sleep", "advance"} =>
       /\ Len(frames) = calls + 1
       /\ Shows(frames[Len(frames)], w)
       /\ Advanced => ret = 1
  /\ LoopReturned => Len(frames) = calls /\ Advanced /\ ret = 0
  /\ frames # <<>> => Drawn(frames[1]) = LiveCells(start) /\ frames[1].iteration = 0

C8_Witness == pc = "advance" /\ calls = 2 /\ Len(frames) = 3

(* C9 as claimed: when the loop has returned, the grid the last advance   *)
(* produced has been drawn.                                               *)
C9_EveryGenerationRendered ==
  LoopReturned => \E i \in 1 .. Len(frames) : Drawn(frames[i]) = LiveCells(w.cells)

(* C9: every grid an advance produced with continue is drawn next; the    *)
(* grid of the stopping advance is not drawn again: after a stagnation it *)
(* is what the last frame shows, after an extinction that changed the     *)
(* grid it is in no frame.                                                *)
C9_RenderedWhileRunning ==
  /\ pc \in {"sleep", "advance"} => Len(frames) = calls + 1 /\ Shows(frames[calls + 1], w)
  /\ LoopReturned =>
       /\ Len(frames) = calls
       /\ IF LiveCells(w.cells) = LiveCells(prev.cells)
          THEN Shows(frames[calls], w)
          ELSE /\ LiveCells(w.cells) = {}
               /\ \A i \in 1 .. Len(frames) : Drawn(frames[i]) # {}

(* The loop returned on an extinction after three frames. *)
C9_Witness == pc = "free" /\ calls = 3 /\ LiveCells(w.cells) = {} /\ LiveCells(prev.cells) # {}

(* C10 as claimed: world_mainloop terminates from every grid.  The next   *)
(* grid is a function of the alive pattern alone, so a loop that is about *)
(* to draw a pattern it has drawn before repeats for ever: termination    *)
(* from every grid requires that this never happens.                      *)
C10_Terminates ==
  ~(pc = "draw" /\ \E i \in 1 .. Len(frames) : Drawn(frames[i]) = LiveCells(w.cells))

(* C10: world_mainloop returns only after a world_advance call that       *)
(* produced a grid equal to its predecessor or a grid with no live cell,  *)
(* and goes on after every other call.                                    *)
C10_StopsOnlyAtFixedPointOrExtinction ==
  /\ LoopReturned =>
       \/ LiveCells(w.cells) = LiveCells(prev.cells)
       \/ LiveCells(w.cells) = {}
  /\ (Advanced /\ ~LoopReturned) =>
       /\ LiveCells(w.cells) # LiveCells(prev.cells)
       /\ LiveCells(w.cells) # {}

(* The loop returned on a fixed point it reached after several advances. *)
C10_Witness ==
  /\ pc = "exit" /\ calls >= 3
  /\ LiveCells(w.cells) = LiveCells(prev.cells)
  /\ LiveCells(w.cells) # {}

(* C11: when the parsed width or height is zero the engine does not       *)
(* simulate: the program never gets past the construction of the world,   *)
(* so world_randomize, world_draw and world_advance are not invoked.      *)
C11_NoSimulationOnEmptyGrid ==
  (w.width = 0 \/ w.height = 0) => pc = "randomize"

(* C12: world_is_in_bounds(x, y), called with int coordinates, is 1      *)
(* exactly when 0 <= x < width and 0 <= y < height; the neighbour         *)
(* coordinates cell_update passes, -1, width and height among them, are   *)
(* judged in bounds exactly when they are positions of the grid.          *)
C12_InBoundsSigned ==
  /\ probe.op = "in_bounds" =>
       probe.result = (IF /\ 0 <= probe.x /\ probe.x < w.width
                          /\ 0 <= probe.y /\ probe.y < w.height
                       THEN 1 ELSE 0)
  /\ pc = "fn" =>
       \A p \in Positions(w.cells) : \A dy \in {-1, 0, 1}, dx \in {-1, 0, 1} :
         (world_is_in_bounds(w, neighbour_coord(p[2], dx),
                                neighbour_coord(p[1], dy)) = 1)
           <=> <<p[1] + dy, p[2] + dx>> \in Positions(w.cells)

(* The call with x = -1 on a grid that has cells. *)
C12_Witness ==
  /\ probe.op = "in_bounds"
  /\ probe.x = -1 /\ probe.y = 0
  /\ w.width > 0 /\ w.height > 0
  /\ probe.result = 0

(* C13: the positions cell_update reads for a cell are exactly the        *)
(* positions of the grid among the eight around it: never the cell        *)
(* itself, never an index outside the grid, never the opposite edge.      *)
C13_ReadsInBounds ==
  probe.op = "cell_update" =>
    /\ probe.reads \subseteq Positions(probe.before.cells)
    /\ <<probe.y, probe.x>> \notin probe.reads
    /\ probe.reads = Around(<<probe.y, probe.x>>) \cap Positions(probe.before.cells)

(* cell_update on the last corner of a 3 x 3 grid: three reads. *)
C13_Witness ==
  /\ probe.op = "cell_update"
  /\ w.width = 3 /\ w.height = 3
  /\ probe.y = 2 /\ probe.x = 2
  /\ Cardinality(probe.reads) = 3

(* C14: cell_update leaves the cell alive exactly when it was alive with  *)
(* 2 or 3 live neighbours or dead with 3, counted in the grid as it was   *)
(* at the call, and changes nothing else of the world.                    *)
C14_CellRule ==
  probe.op = "cell_update" =>
    LET p == <<probe.y, probe.x>>
        n == LiveAround(LiveCells(probe.before.cells), p)
        was == probe.before.cells[probe.y][probe.x].alive
    IN  w = [probe.before EXCEPT !.cells[probe.y][probe.x].alive =
               IF (was # 0 /\ n \in {2, 3}) \/ (was = 0 /\ n = 3) THEN 1 ELSE 0]

(* A dead cell that cell_update made alive. *)
C14_Witness ==
  /\ probe.op = "cell_update"
  /\ probe.before.cells[probe.y][probe.x].alive = 0
  /\ w.cells[probe.y][probe.x].alive = 1

(* The rows of a world object. *)
RowsOf(obj) == {obj.cells[y] : y \in DOMAIN obj.cells}

(* C15: the copy compares equal to the original, shares no row with it,   *)
(* and neither world_copy nor a write to a cell of the copy changes the   *)
(* original; the snapshot world_advance takes holds the pattern the grid  *)
(* had before the call, whatever the call wrote to the grid.              *)
C15_DeepCopy ==
  /\ [](probe.op \in {"copy", "mutate_copy"} =>
          /\ heap_load(probe.heap, probe.g) = w
          /\ RowsOf(probe.g) \cap RowsOf(probe.copy) = {})
  /\ [](probe.op = "copy" =>
          /\ heap_load(probe.heap, probe.copy).width = w.width
          /\ heap_load(probe.heap, probe.copy).height = w.height
          /\ LiveCells(heap_load(probe.heap, probe.copy).cells) = LiveCells(w.cells)
          /\ world_compare(w, heap_load(probe.heap, probe.copy)) = 0)
  /\ [][calls' = calls + 1 =>
          /\ LiveCells(prev'.cells) = LiveCells(w.cells)
          /\ prev'.width = w.width /\ prev'.height = w.height]_vars

(* A cell of the copy of an advanced, non-empty grid has been written. *)
C15_Witness ==
  /\ probe.op = "mutate_copy"
  /\ Advanced
  /\ LiveCells(w.cells) # {}
  /\ heap_load(probe.heap, probe.copy).cells # w.cells

(* C16: world_compare returns 0 exactly when width, height and every      *)
(* alive flag agree; the iteration counters play no part.                 *)
C16_CompareIffSame ==
  probe.op = "compare" =>
    /\ probe.result \in {0, 1}
    /\ probe.result = 0 <=>
         /\ probe.other.width = w.width
         /\ probe.other.height = w.height
         /\ \A p \in Positions(w.cells) :
              probe.other.cells[p[1]][p[2]].alive = w.cells[p[1]][p[2]].alive

(* A grid and its copy with another iteration value compare identical. *)
C16_Witness ==
  /\ probe.op = "compare"
  /\ probe.result = 0
  /\ probe.other.iteration # w.iteration
  /\ LiveCells(w.cells) # {}

(* C17: world_draw changes nothing of the world, and its frame has        *)
(* height rows of width characters, 'o' exactly on the live cells, and    *)
(* the world's width, height and iteration on the status line.            *)
C17_DrawObserves ==
  [][frames' # frames =>
       /\ w' = w
       /\ frames' = Append(frames, frames'[Len(frames')])
       /\ Cardinality(DOMAIN frames'[Len(frames')].rows) = w.height
       /\ \A y \in DOMAIN frames'[Len(frames')].rows :
            Cardinality(DOMAIN frames'[Len(frames')].rows[y]) = w.width
       /\ Shows(frames'[Len(frames')], w)]_vars

(* The second frame of a run, with live cells in it. *)
C17_Witness ==
  /\ pc = "sleep" /\ Len(frames) = 2
  /\ Drawn(frames[2]) # {}
  /\ w.width > 1 /\ w.height > 1

(* The cell array has height rows of width cells, each cell holds its     *)
(* column in x and its row in y, and every alive flag is 0 or 1.          *)
WellFormed(wd) ==
  /\ DOMAIN wd.cells = 0 .. (wd.height - 1)
  /\ \A y \in DOMAIN wd.cells :
       /\ DOMAIN wd.cells[y] = 0 .. (wd.width - 1)
       /\ \A x \in DOMAIN wd.cells[y] :
            /\ wd.cells[y][x].x = x
            /\ wd.cells[y][x].y = y
            /\ wd.cells[y][x].alive \in {0, 1}

(* C18: in every state of the program the world keeps the width and       *)
(* height it was built with, its cell array has that shape and every      *)
(* cell holds its own column and row; so does the snapshot world_copy     *)
(* makes in world_advance.                                                *)
C18_Layout ==
  /\ [](WellFormed(w))
  /\ [](Advanced => /\ WellFormed(prev)
                    /\ prev.width = w.width /\ prev.height = w.height)
  /\ [][w'.width = w.width /\ w'.height = w.height]_vars

(* A 3 x 2 grid with live cells after an advance that goes on. *)
C18_Witness ==
  /\ pc = "draw" /\ Advanced
  /\ w.width = 3 /\ w.height = 2
  /\ LiveCells(w.cells) # {}

(* C19: the k-th frame of world_mainloop shows iteration k - 1, the       *)
(* number of advances made when it was drawn.                             *)
C19_FrameCounter ==
  /\ \A k \in 1 .. Len(frames) : frames[k].iteration = k - 1
  /\ pc \in {"sleep", "advance"} => frames[Len(frames)].iteration = calls

C19_Witness == pc = "sleep" /\ Len(frames) = 4

(* C20: once a world_advance call has returned 0, every further call      *)
(* returns 0 and leaves the alive flags and the counter as they were.     *)
C20_StopIsStable ==
  [][(Advanced /\ ret = 0 /\ calls' = calls + 1) => (ret' = 0 /\ w' = w)]_vars

(* A call that went on, a call that stopped, and a further call. *)
C20_Witness == calls = 3 /\ w.iteration = 1 /\ ret = 0 /\ LiveCells(w.cells) # {}

====
